---- MODULE Spec2Model ----
(***************************************************************************)
(* The Flask writing-assistant service of src/api/zjer.py: the process-    *)
(* wide stats counters, the lazily built engine singletons, the analysis   *)
(* cache and the five POST handlers with the two GET handlers, each        *)
(* handler split at its accesses to the shared module globals so that the  *)
(* interleavings of the threaded server (app.run, one thread per request)  *)
(* are those of the model.                                                 *)
(***************************************************************************)
EXTENDS Integers, Sequences, FiniteSets, TLC

(***************************************************************************)
(* Characters and strings.  A text is a TLA+ string; Ch(s, i) is s[i-1] of *)
(* the Python code.                                                        *)
(***************************************************************************)
LowerLetters ==
  {"a", "b", "c", "d", "e", "f", "g", "h", "i", "j", "k", "l", "m",
   "n", "o", "p", "q", "r", "s", "t", "u", "v", "w", "x", "y", "z"}

UpperLetters ==
  {"A", "B", "C", "D", "E", "F", "G", "H", "I", "J", "K", "L", "M",
   "N", "O", "P", "Q", "R", "S", "T", "U", "V", "W", "X", "Y", "Z"}

Digits == {"0", "1", "2", "3", "4", "5", "6", "7", "8", "9"}

\* \w of the regular expressions: letters, digits and the underscore.
WordChars == LowerLetters \cup UpperLetters \cup Digits \cup {"_"}

\* \s of the regular expressions and what str.strip() removes.
SpaceChars == {" ", "\n", "\t", "\r"}

\* The sentence-ending punctuation the sentence segmenter splits after.
SentenceEnders == {".", "!", "?"}

Ch(s, i) == SubSeq(s, i, i)

Max(a, b) == IF a >= b THEN a ELSE b

Min(a, b) == IF a <= b THEN a ELSE b

\* The elements of a finite set of integers in increasing order.
SortedSeq(S) ==
  [k \in 1..Cardinality(S) |->
     CHOOSE m \in S : Cardinality({n \in S : n <= m}) = k]

\* re.IGNORECASE on one character.
LowerPairs ==
  {<<"A", "a">>, <<"B", "b">>, <<"C", "c">>, <<"D", "d">>, <<"E", "e">>,
   <<"F", "f">>, <<"G", "g">>, <<"H", "h">>, <<"I", "i">>, <<"J", "j">>,
   <<"K", "k">>, <<"L", "l">>, <<"M", "m">>, <<"N", "n">>, <<"O", "o">>,
   <<"P", "p">>, <<"Q", "q">>, <<"R", "r">>, <<"S", "s">>, <<"T", "t">>,
   <<"U", "u">>, <<"V", "v">>, <<"W", "w">>, <<"X", "x">>, <<"Y", "y">>,
   <<"Z", "z">>}

LowerCh(c) ==
  IF c \in UpperLetters THEN (CHOOSE p \in LowerPairs : p[1] = c)[2] ELSE c

RECURSIVE Lower(_)
Lower(s) == IF Len(s) = 0 THEN "" ELSE LowerCh(Ch(s, 1)) \o Lower(SubSeq(s, 2, Len(s)))

\* s[:n]
Prefix(s, n) == SubSeq(s, 1, Min(n, Len(s)))

\* s[-n:] if len(s) > n else s
Suffix(s, n) == IF Len(s) > n THEN SubSeq(s, Len(s) - n + 1, Len(s)) ELSE s

\* str.strip(): the text between the first and the last non-blank character.
Strip(s) ==
  IF \A i \in 1..Len(s) : Ch(s, i) \in SpaceChars THEN ""
  ELSE LET first == CHOOSE i \in 1..Len(s) :
                       /\ Ch(s, i) \notin SpaceChars
                       /\ \A k \in 1..(i - 1) : Ch(s, k) \in SpaceChars
           cut   == CHOOSE d \in 0..(Len(s) - 1) :
                       /\ Ch(s, Len(s) - d) \notin SpaceChars
                       /\ \A k \in (Len(s) - d + 1)..Len(s) : Ch(s, k) \in SpaceChars
       IN  SubSeq(s, first, Len(s) - cut)

\* needle in hay
Contains(hay, needle) ==
  \E k \in 1..(Len(hay) - Len(needle) + 1) :
     SubSeq(hay, k, k + Len(needle) - 1) = needle

\* n copies of s, one after the other.
RECURSIVE Repeat(_, _)
Repeat(s, n) ==
  IF n = 0 THEN ""
  ELSE LET half == Repeat(s, n \div 2)
       IN  IF n % 2 = 0 THEN half \o half ELSE half \o half \o s

(***************************************************************************)
(* re.findall(r'\b\w+\b', text): the maximal runs of word characters.      *)
(***************************************************************************)
WordStarts(s) ==
  {i \in 1..Len(s) : Ch(s, i) \in WordChars
                     /\ (i = 1 \/ Ch(s, i - 1) \notin WordChars)}

\* The last character of the word that starts at i.
WordEndAt(s, i) ==
  CHOOSE j \in i..Len(s) :
     /\ \A k \in i..j : Ch(s, k) \in WordChars
     /\ (j = Len(s) \/ Ch(s, j + 1) \notin WordChars)

WordAt(s, i) == SubSeq(s, i, WordEndAt(s, i))

\* len(re.findall(r'\b\w+\b', text))
WordCount(s) == Cardinality(WordStarts(s))

\* sum(len(word) for word in words)
WordCharTotal(s) == Cardinality({i \in 1..Len(s) : Ch(s, i) \in WordChars})

\* The start of the word that follows the word ending at e, or 0.
NextWordStart(s, e) ==
  IF \A j \in (e + 1)..Len(s) : Ch(s, j) \notin WordChars THEN 0
  ELSE CHOOSE j \in (e + 1)..Len(s) :
          /\ Ch(s, j) \in WordChars
          /\ \A k \in (e + 1)..(j - 1) : Ch(s, k) \notin WordChars

\* The start of the word that precedes the word starting at i, or 0.
PrevWordStart(s, i) ==
  IF \A j \in 1..(i - 1) : Ch(s, j) \notin WordChars THEN 0
  ELSE LET back == CHOOSE d \in 1..(i - 1) :
                      /\ Ch(s, i - d) \in WordChars
                      /\ \A k \in (i - d + 1)..(i - 1) : Ch(s, k) \notin WordChars
           last == i - back
           len  == CHOOSE d \in 1..last :
                      /\ \A k \in (last - d + 1)..last : Ch(s, k) \in WordChars
                      /\ (d = last \/ Ch(s, last - d) \notin WordChars)
       IN  last - len + 1

\* \s+ between the word ending at e and the word starting at n.
OnlySpaceBetween(s, e, n) ==
  n > e + 1 /\ \A k \in (e + 1)..(n - 1) : Ch(s, k) \in SpaceChars

(***************************************************************************)
(* sent_tokenize(text), the sentence segmenter of the tokenizer library:   *)
(* a sentence ends at ., ! or ? followed by white space or by the end of   *)
(* the text, and the sentences come back stripped, in order, without the   *)
(* empty ones.                                                             *)
(***************************************************************************)
SentenceEnds(s) ==
  {i \in 1..Len(s) : Ch(s, i) \in SentenceEnders
                     /\ (i = Len(s) \/ Ch(s, i + 1) \in SpaceChars)}

sent_tokenize(s) ==
  LET cuts   == SortedSeq(SentenceEnds(s) \cup (IF Len(s) > 0 THEN {Len(s)} ELSE {}))
      piece(k) == Strip(SubSeq(s, IF k = 1 THEN 1 ELSE cuts[k - 1] + 1, cuts[k]))
      pieces == [k \in 1..Len(cuts) |-> piece(k)]
  IN  SelectSeq(pieces, LAMBDA p : Len(p) > 0)

(***************************************************************************)
(* text.split('\n\n'): the separators are found left to right and do not   *)
(* overlap, so a run of k newlines holds k \div 2 of them.                  *)
(***************************************************************************)
NewlineRunStart(s, i) ==
  i + 1 - (CHOOSE d \in 1..i :
              /\ \A k \in (i - d + 1)..i : Ch(s, k) = "\n"
              /\ (d = i \/ Ch(s, i - d) # "\n"))

SeparatorStarts(s) ==
  {i \in 1..(Len(s) - 1) : /\ Ch(s, i) = "\n"
                           /\ Ch(s, i + 1) = "\n"
                           /\ (i - NewlineRunStart(s, i)) % 2 = 0}

SplitParagraphs(s) ==
  LET seps == SortedSeq(SeparatorStarts(s))
      n    == Len(seps)
  IN  [k \in 1..(n + 1) |->
         SubSeq(s, IF k = 1 THEN 1 ELSE seps[k - 1] + 2,
                   IF k = n + 1 THEN Len(s) ELSE seps[k] - 1)]

(***************************************************************************)
(* The heuristic scans of /suggest.                                        *)
(***************************************************************************)
LongSentenceWords == 25

ManyFindings == 2

ShortTextWords == 100

LongTextWords == 1000

\* (?:am|is|are|was|were|be|been|being)
PassiveAux == {"am", "is", "are", "was", "were", "be", "been", "being"}

\* written|done|made|said|known|gone|taken
IrregularParticiples ==
  {"written", "done", "made", "said", "known", "gone", "taken"}

\* (\w+ed|written|done|made|said|known|gone|taken)\b on a whole word,
\* lower-cased.
IsParticiple(w) ==
  \/ w \in IrregularParticiples
  \/ Len(w) >= 3 /\ SubSeq(w, Len(w) - 1, Len(w)) = "ed"

\* The long sentences, in order: the sentences of more than 25 words.
LongSentences(sentences) ==
  LET entry(k) == [sentence |-> sentences[k], word_count |-> WordCount(sentences[k])]
      all == [k \in 1..Len(sentences) |-> entry(k)]
  IN  SelectSeq(all, LAMBDA e : e.word_count > LongSentenceWords)

\* re.finditer(passive_regex, text, re.IGNORECASE): where the matches start.
\* An auxiliary is no participle, so no two matches overlap.
PassiveMatchStarts(s) ==
  {i \in WordStarts(s) :
     /\ Lower(WordAt(s, i)) \in PassiveAux
     /\ LET e == WordEndAt(s, i)
            n == NextWordStart(s, e)
        IN  /\ n # 0
            /\ OnlySpaceBetween(s, e, n)
            /\ IsParticiple(Lower(WordAt(s, n)))}

\* match.group(0) of the match that starts at i: two words and the space
\* between them.
TwoWordsAt(s, i) ==
  SubSeq(s, i, WordEndAt(s, NextWordStart(s, WordEndAt(s, i))))

\* \b(\w+)\s+\1\b at the word starting at i, re.IGNORECASE.
RepeatsNext(s, i) ==
  LET e == WordEndAt(s, i)
      n == NextWordStart(s, e)
  IN  /\ n # 0
      /\ OnlySpaceBetween(s, e, n)
      /\ Lower(WordAt(s, i)) = Lower(WordAt(s, n))

\* re.finditer(repeated_word_regex, text, re.IGNORECASE): a match takes both
\* words, so the second word of a match starts no match of its own.
RECURSIVE RepeatedMatchAt(_, _)
RepeatedMatchAt(s, i) ==
  /\ RepeatsNext(s, i)
  /\ LET p == PrevWordStart(s, i)
     IN  ~(p # 0 /\ RepeatsNext(s, p) /\ RepeatedMatchAt(s, p))

RepeatedMatchStarts(s) == {i \in WordStarts(s) : RepeatedMatchAt(s, i)}

\* The matches that start at `starts`, in order: group(0), the two words
\* and the space between them, and group(1), the first word.
MatchesAt(s, starts) ==
  [k \in 1..Len(starts) |->
     [group0 |-> TwoWordsAt(s, starts[k]), group1 |-> WordAt(s, starts[k])]]

\* Whether some sentence holds the matched text.
InSomeSentence(sentences, matched) ==
  \E k \in 1..Len(sentences) : Contains(sentences[k], matched)

\* for sentence in sentences: if match.group(0) in sentence: ...; break
\* The first sentence that holds the matched text.
FirstSentenceWith(sentences, matched) ==
  sentences[CHOOSE k \in 1..Len(sentences) :
              /\ Contains(sentences[k], matched)
              /\ \A j \in 1..(k - 1) : ~Contains(sentences[j], matched)]

\* The matches that get an entry: those that some sentence holds.
Recorded(sentences, matches) ==
  SelectSeq(matches, LAMBDA m : InSomeSentence(sentences, m.group0))

PassiveEntries(sentences, recorded) ==
  [k \in 1..Len(recorded) |->
     [sentence |-> FirstSentenceWith(sentences, recorded[k].group0),
      match    |-> recorded[k].group0]]

RepeatedEntries(sentences, recorded) ==
  [k \in 1..Len(recorded) |->
     [sentence      |-> FirstSentenceWith(sentences, recorded[k].group0),
      repeated_word |-> recorded[k].group1]]

\* The passive_voice list: one entry per match that some sentence holds.
PassiveVoice(s, sentences) ==
  PassiveEntries(sentences,
                 Recorded(sentences, MatchesAt(s, SortedSeq(PassiveMatchStarts(s)))))

\* The repeated_words list: one entry per match that some sentence holds.
RepeatedWords(s, sentences) ==
  RepeatedEntries(sentences,
                  Recorded(sentences, MatchesAt(s, SortedSeq(RepeatedMatchStarts(s)))))

AdviceShorten == "Consider breaking long sentences into shorter ones for clarity."

AdviceActive == "Try using more active voice to make your writing more engaging and direct."

AdviceExpand == "Your text is quite short. Consider expanding your ideas for more depth."

AdviceOrganise == "Your text is quite long. Consider organizing it into clear sections."

\* GeneralSuggestions with the two word-count rules taken inclusively: a
\* faulty variant that C7 tells from the code's.
GeneralSuggestionsInclusive(nLong, nPassive, words) ==
  (IF nLong > ManyFindings THEN <<AdviceShorten>> ELSE <<>>)
  \o (IF nPassive > ManyFindings THEN <<AdviceActive>> ELSE <<>>)
  \o (IF words <= ShortTextWords THEN <<AdviceExpand>>
      ELSE IF words >= LongTextWords THEN <<AdviceOrganise>>
      ELSE <<>>)

\* The general_suggestions list of /suggest from the two list lengths and
\* the word count of the text.
GeneralSuggestions(nLong, nPassive, words) ==
  (IF nLong > ManyFindings THEN <<AdviceShorten>> ELSE <<>>)
  \o (IF nPassive > ManyFindings THEN <<AdviceActive>> ELSE <<>>)
  \o (IF words < ShortTextWords THEN <<AdviceExpand>>
      ELSE IF words > LongTextWords THEN <<AdviceOrganise>>
      ELSE <<>>)

\* suggestion_count over the three lists of findings only: a faulty variant
\* that C4 tells from the code's.
SuggestionCountOfFindings(sg) ==
  Len(sg.long_sentences) + Len(sg.passive_voice) + Len(sg.repeated_words)

\* suggestion_count of /suggest.
SuggestionCount(sg) ==
  Len(sg.long_sentences) + Len(sg.passive_voice) + Len(sg.repeated_words)
    + Len(sg.general_suggestions)

\* The suggestions dictionary of /suggest from its three lists of findings
\* and the word count of the text.
SuggestionsOf(long, passive, repeated, words) ==
  [long_sentences      |-> long,
   passive_voice       |-> passive,
   repeated_words      |-> repeated,
   general_suggestions |-> GeneralSuggestions(Len(long), Len(passive), words)]

\* The suggestions dictionary of /suggest for a text and its sentences.
Suggestions(s, sentences) ==
  SuggestionsOf(LongSentences(sentences), PassiveVoice(s, sentences),
                RepeatedWords(s, sentences), WordCount(s))

(***************************************************************************)
(* The metrics of /analyze.  An average is kept as the exact quotient      *)
(* num / den that the code divides out.                                    *)
(***************************************************************************)
MinParagraphChars == 3

PreviewChars == 50

CacheKeyChars == 100

PromptChars == 100

AvgLongSentence == 25

AvgShortSentence == 10

FewSentences == 3

\* The segmenter called whatever the text: a faulty variant that C8 tells
\* from the code's.
NeedsSegmenterAlways(s) == TRUE

\* `if text.strip()`: whether /analyze hands the text to the segmenter.
NeedsSegmenter(s) == Strip(s) # ""

\* sum(len(word) for word in words) / max(1, len(words))
AvgWordLength(s) == [num |-> WordCharTotal(s), den |-> Max(1, WordCount(s))]

RECURSIVE SumWords(_, _)
SumWords(sentences, k) ==
  IF k = 0 THEN 0 ELSE WordCount(sentences[k]) + SumWords(sentences, k - 1)

\* sum(words of each sentence) / max(1, len(sentences))
AvgSentenceLength(sentences) ==
  [num |-> SumWords(sentences, Len(sentences)), den |-> Max(1, Len(sentences))]

\* [p for p in paragraphs if p.strip() and len(p.strip()) > 3]
ValidParagraphs(s) ==
  SelectSeq(SplitParagraphs(s),
            LAMBDA p : Strip(p) # "" /\ Len(Strip(p)) > MinParagraphChars)

\* para[:50] + "..." if len(para) > 50 else para
Preview(para) ==
  IF Len(para) > PreviewChars THEN Prefix(para, PreviewChars) \o "..." ELSE para

\* The entry of a paragraph whose sentiment call returned label and score.
SentimentEntry(para, label, score) ==
  [preview |-> Preview(para), full_paragraph |-> para, label |-> label, score |-> score]

\* A failed sentiment call reported as NEGATIVE with score 0: a faulty
\* variant that C6 tells from the code's.
NeutralEntryAsNegative(para) ==
  [preview |-> Preview(para), full_paragraph |-> para, label |-> "NEGATIVE", score |-> 0]

\* The entry of a paragraph whose sentiment call raised: NEUTRAL, 0.5
\* (scores are in hundredths).
NeutralEntry(para) ==
  [preview |-> Preview(para), full_paragraph |-> para, label |-> "NEUTRAL", score |-> 50]

\* The readability_issues list from the average sentence length and the
\* sentence count.
ReadabilityIssues(avg, sentence_count) ==
  IF avg.num > AvgLongSentence * avg.den THEN <<"long_sentences">>
  ELSE IF avg.num < AvgShortSentence * avg.den /\ sentence_count > FewSentences
       THEN <<"short_sentences">>
       ELSE <<>>

CountLabel(results, label) ==
  Cardinality({k \in 1..Len(results) : results[k].label = label})

OverallSentiment(results) ==
  LET positive == CountLabel(results, "POSITIVE")
      negative == CountLabel(results, "NEGATIVE")
  IN  IF positive > negative THEN "Mostly Positive"
      ELSE IF negative > positive THEN "Mostly Negative"
      ELSE "Neutral"

(***************************************************************************)
(* The requests the clients send.                                          *)
(***************************************************************************)
\* Worker threads of the server, and requests served in one run.
NumThreads == 2

MaxRequests == 2

Threads == 1..NumThreads

\* A sentence of 26 words with one passive construction.
LongPassiveSentence == Repeat("word ", 24) \o "was made."

\* A sentence of 25 words.
Sentence25 == Repeat("ab cd ", 12) \o "ef."

\* A sentence of 100 words.
Sentence100 == Repeat("ab cd ", 49) \o "ab cd."

\* The texts of the requests: the empty text; white space only; three
\* paragraphs, the second too short to be valid; three long passive
\* sentences; 100 words in four sentences of 25; 1000 words; 1001 words; one
\* short sentence with a passive construction and a repeated word; two long
\* passive sentences.
Texts ==
  << "",
     " \n\n ",
     "Nice day.\n\nbad\n\nIt was done done.",
     Repeat(LongPassiveSentence \o " ", 3),
     Repeat(Sentence25 \o " ", 4),
     Repeat(Sentence100 \o "\n", 10),
     Repeat(Sentence100 \o "\n", 10) \o "End",
     "It was done done.",
     Repeat(LongPassiveSentence \o " ", 2) >>

AllTexts == 1..Len(Texts)

\* The texts of the runs in which requests overlap.
RaceTexts == {8}

Endpoints ==
  {"health", "stats", "reset", "check_grammar", "analyze", "suggest", "complete"}

\* request.json: no 'text' key, a 'text' that is a JSON number, or a text.
NoText == [kind |-> "none", text |-> 0]

NumberText == [kind |-> "number", text |-> 0]

Bodies(ids) == {NoText, NumberText} \cup {[kind |-> "text", text |-> x] : x \in ids}

\* How many matches the grammar engine reports for a text.
MatchCounts == {0, 2}

\* What the sentiment pipeline returns for a paragraph (scores in hundredths).
SentimentOutcomes ==
  {[label |-> "POSITIVE", score |-> 99], [label |-> "NEGATIVE", score |-> 87]}

\* What the text generator appends to the prompt.
Continuations == {" and more"}

(***************************************************************************)
(* What the handlers compute from a text alone, for each text the clients  *)
(* send.                                                                   *)
(***************************************************************************)
\* From the text, the sentences /analyze works on, and the suggestions.
FactsFrom(s, segmented, analysed, sg) ==
  [char_count          |-> Len(s),
   word_count          |-> WordCount(s),
   segmented           |-> segmented,
   sentence_count      |-> Len(analysed),
   avg_word_length     |-> AvgWordLength(s),
   avg_sentence_length |-> AvgSentenceLength(analysed),
   valid_paragraphs    |-> ValidParagraphs(s),
   cache_key           |-> Prefix(s, CacheKeyChars),
   suggestions         |-> sg,
   suggestion_count    |-> SuggestionCount(sg),
   prompt              |-> Suffix(s, PromptChars)]

\* sent_tokenize(text) if text.strip() else []
AnalysedSentences(s, segmented) == IF segmented THEN sent_tokenize(s) ELSE <<>>

TextFacts(s) ==
  FactsFrom(s, NeedsSegmenter(s), AnalysedSentences(s, NeedsSegmenter(s)),
            Suggestions(s, sent_tokenize(s)))

FactsOf == [x \in AllTexts |-> TextFacts(Texts[x])]

(***************************************************************************)
(* The state: the module globals of zjer.py and, for each worker thread,   *)
(* where it is in its handler and the handler's locals.                    *)
(***************************************************************************)
VARIABLES
  stats,               \* the dictionary the global name stats is bound to
  heap,                \* heap[d]: the contents of the stats dictionary d in use
  analysis_results,    \* the keys of the analysis_results dictionary
  grammar_tool,        \* 0 for None, else the instance
  sentiment_analyzer,  \* 0 for None, else the instance
  text_generator,      \* 0 for None, else the instance
  built,               \* built[e]: the instances of engine e constructed so far
  th,                  \* th[t]: thread t's handler, position and locals
  started              \* the requests received so far

vars ==
  <<stats, heap, analysis_results, grammar_tool, sentiment_analyzer,
    text_generator, built, th, started>>

\* stats = {"words_checked": 0, "grammar_errors_found": 0, "suggestions_made": 0}
ZeroStats == [words_checked |-> 0, grammar_errors_found |-> 0, suggestions_made |-> 0]

NoOut == [kind |-> "none"]

NoResp == [status |-> 0, payload |-> NoOut, stats |-> ZeroStats]

\* A thread between two requests.  pre, alone, segmenter_calls,
\* sentiment_uses and outcomes observe the request for the properties below:
\* whether no other thread has moved since it arrived, the counters when it
\* arrived (kept for as long as it is alone), the calls it made, and what
\* the sentiment engine answered.
Idle ==
  [pc |-> "idle", endpoint |-> "none", body |-> NoText, ref |-> 0, val |-> 0,
   amt |-> 0, key |-> "none", inst |-> 0, paras |-> <<>>, results |-> <<>>, out |-> NoOut,
   resp |-> NoResp, pre |-> ZeroStats, alone |-> FALSE, segmenter_calls |-> 0,
   sentiment_uses |-> 0, outcomes |-> <<>>]

Init ==
  /\ stats = 1
  /\ heap = (1 :> ZeroStats)
  /\ analysis_results = {}
  /\ grammar_tool = 0
  /\ sentiment_analyzer = 0
  /\ text_generator = 0
  /\ built = [grammar |-> 0, sentiment |-> 0, generator |-> 0]
  /\ th = [t \in Threads |-> Idle]
  /\ started = 0

\* Thread t moves to `me`; every other thread in a request has company.
Moves(t, me) ==
  th' = [u \in Threads |->
           IF u = t THEN me
           ELSE IF th[u].pc = "idle" THEN th[u]
           ELSE [th[u] EXCEPT !.alone = FALSE, !.pre = ZeroStats]]

\* What thread t's handler computes from the text of its request.
Facts(t) == FactsOf[th[t].body.text]

\* jsonify({"error": ...}), status
ErrorResp(status) == [status |-> status, payload |-> [kind |-> "error"], stats |-> ZeroStats]

Fails(t, status) == [th[t] EXCEPT !.pc = "done", !.resp = ErrorResp(status)]

\* stats[key] += amount, first half: LOAD_GLOBAL stats, BINARY_SUBSCR.
Loads(me, key, amount, next) ==
  [me EXCEPT !.pc = next, !.ref = stats, !.val = heap[stats][key],
             !.key = key, !.amt = amount]

\* stats[key] += amount as one indivisible step, adding to what the
\* dictionary holds at the store: the synchronised update that C9 tells
\* from the code's.
StoreSubscrAtomic(h, ref, key, loaded, amount) == [h EXCEPT ![ref][key] = @ + amount]

\* stats[key] += amount, second half: INPLACE_ADD, STORE_SUBSCR into the
\* dictionary loaded before.
StoreSubscr(h, ref, key, loaded, amount) == [h EXCEPT ![ref][key] = loaded + amount]

\* if not data or 'text' not in data
MissingText(t) == th[t].body.kind = "none"

\* The text is no str: len(text) and re.findall(..., text) raise TypeError.
NotAString(t) == th[t].body.kind = "number"

\* The dictionaries still referred to, by the global name or by a thread
\* that has looked the name up: the others are garbage and are freed.
InUse(binding, threads) ==
  ({binding} \cup {threads[u].ref : u \in DOMAIN threads}) \ {0}

Collect(h, binding, threads) ==
  [d \in DOMAIN h \cap InUse(binding, threads) |-> h[d]]

\* The second half of thread t's stats[key] += amount; t goes on at `me`,
\* done with the dictionary it had looked up.
Stores(t, me) ==
  /\ Moves(t, [me EXCEPT !.ref = 0, !.val = 0, !.amt = 0, !.key = "none"])
  /\ heap' = Collect(StoreSubscr(heap, th[t].ref, th[t].key, th[t].val, th[t].amt),
                     stats, th')

\* The engine raised where the engine's answer would be.
Raised == [label |-> "raise", score |-> 0]

(***************************************************************************)
(* A request arrives and the server hands it to an idle thread.            *)
(***************************************************************************)
Arrive(t, ids) ==
  /\ th[t].pc = "idle"
  /\ \A u \in Threads : u < t => th[u].pc # "idle"
  /\ started < MaxRequests
  /\ \E e \in Endpoints, b \in Bodies(ids) :
        /\ e \in {"health", "stats", "reset"} => b = NoText
        /\ Moves(t, [Idle EXCEPT !.pc = e, !.endpoint = e, !.body = b,
                                 !.pre = IF \A u \in Threads \ {t} : th[u].pc = "idle"
                                         THEN heap[stats] ELSE ZeroStats,
                                 !.alone = \A u \in Threads \ {t} : th[u].pc = "idle"])
  /\ started' = started + 1
  /\ UNCHANGED <<stats, heap, analysis_results, grammar_tool, sentiment_analyzer,
                 text_generator, built>>

\* The response leaves; the thread is free again.
Deliver(t) ==
  /\ th[t].pc = "done"
  /\ Moves(t, Idle)
  /\ UNCHANGED <<stats, heap, analysis_results, grammar_tool, sentiment_analyzer,
                 text_generator, built, started>>

\* `"stats": stats` of a return statement: the global is looked up.
Respond(t) ==
  /\ th[t].pc = "respond"
  /\ Moves(t, [th[t] EXCEPT !.pc = "serialise", !.ref = stats])
  /\ UNCHANGED <<stats, heap, analysis_results, grammar_tool, sentiment_analyzer,
                 text_generator, built, started>>

\* jsonify(...) writes out the dictionary that was looked up.
Serialise(t) ==
  /\ th[t].pc = "serialise"
  /\ Moves(t, [th[t] EXCEPT !.pc = "done", !.ref = 0,
                            !.resp = [status |-> 200, payload |-> th[t].out,
                                      stats |-> heap[th[t].ref]]])
  /\ heap' = Collect(heap, stats, th')
  /\ UNCHANGED <<stats, analysis_results, grammar_tool, sentiment_analyzer,
                 text_generator, built, started>>

(***************************************************************************)
(* GET /health, GET /stats, POST /reset                                    *)
(***************************************************************************)
health_check(t) ==
  /\ th[t].pc = "health"
  /\ Moves(t, [th[t] EXCEPT !.pc = "done",
                            !.resp = [status |-> 200, payload |-> [kind |-> "health"],
                                      stats |-> ZeroStats]])
  /\ UNCHANGED <<stats, heap, analysis_results, grammar_tool, sentiment_analyzer,
                 text_generator, built, started>>

get_stats(t) ==
  /\ th[t].pc = "stats"
  /\ Moves(t, [th[t] EXCEPT !.pc = "serialise", !.ref = stats,
                            !.out = [kind |-> "stats"]])
  /\ UNCHANGED <<stats, heap, analysis_results, grammar_tool, sentiment_analyzer,
                 text_generator, built, started>>

\* stats = {...}: a new dictionary, and the global name bound to it; the
\* old one stays for the threads that have looked it up.
reset_stats(t) ==
  /\ th[t].pc = "reset"
  /\ stats' = CHOOSE d \in 1..(Cardinality(DOMAIN heap) + 1) : d \notin DOMAIN heap
  /\ Moves(t, [th[t] EXCEPT !.pc = "reset_cache"])
  /\ heap' = Collect(heap @@ (stats' :> ZeroStats), stats', th')
  /\ UNCHANGED <<analysis_results, grammar_tool, sentiment_analyzer,
                 text_generator, built, started>>

\* analysis_results = {}
reset_cache(t) ==
  /\ th[t].pc = "reset_cache"
  /\ analysis_results' = {}
  /\ Moves(t, [th[t] EXCEPT !.pc = "respond", !.out = [kind |-> "reset"]])
  /\ UNCHANGED <<stats, heap, grammar_tool, sentiment_analyzer,
                 text_generator, built, started>>

(***************************************************************************)
(* POST /check-grammar                                                     *)
(***************************************************************************)
check_grammar(t) ==
  /\ th[t].pc = "check_grammar"
  /\ Moves(t, IF MissingText(t) THEN Fails(t, 400)
              ELSE IF NotAString(t) THEN Fails(t, 500)
              ELSE Loads(th[t], "words_checked", Facts(t).word_count, "cg_store_words"))
  /\ UNCHANGED <<stats, heap, analysis_results, grammar_tool, sentiment_analyzer,
                 text_generator, built, started>>

cg_store_words(t) ==
  /\ th[t].pc = "cg_store_words"
  /\ Stores(t, [th[t] EXCEPT !.pc = "cg_tool"])
  /\ UNCHANGED <<stats, analysis_results, grammar_tool, sentiment_analyzer,
                 text_generator, built, started>>

\* get_grammar_tool(): if grammar_tool is None
get_grammar_tool(t) ==
  /\ th[t].pc = "cg_tool"
  /\ Moves(t, [th[t] EXCEPT !.pc = IF grammar_tool = 0 THEN "cg_tool_init"
                                   ELSE "cg_check"])
  /\ UNCHANGED <<stats, heap, analysis_results, grammar_tool, sentiment_analyzer,
                 text_generator, built, started>>

\* The local LanguageTool is built, or it raises and the public API client
\* is built instead, or that raises too and the request fails.
grammar_tool_init(t) ==
  /\ th[t].pc = "cg_tool_init"
  /\ \E how \in {"local", "public", "raise"} :
        IF how = "raise"
        THEN /\ Moves(t, Fails(t, 500))
             /\ UNCHANGED <<grammar_tool, built>>
        ELSE /\ built' = [built EXCEPT !.grammar = @ + 1]
             /\ grammar_tool' = built.grammar + 1
             /\ Moves(t, [th[t] EXCEPT !.pc = "cg_check"])
  /\ UNCHANGED <<stats, heap, analysis_results, sentiment_analyzer,
                 text_generator, started>>

\* return grammar_tool, then .check(text): it raises, or it reports matches.
grammar_check(t) ==
  /\ th[t].pc = "cg_check"
  /\ \E n \in MatchCounts \cup {-1} :
        Moves(t, IF n = -1
                 THEN [Fails(t, 500) EXCEPT !.inst = grammar_tool]
                 ELSE [th[t] EXCEPT !.pc = "cg_load_errors", !.inst = grammar_tool,
                                    !.out = [kind |-> "grammar", total_issues |-> n]])
  /\ UNCHANGED <<stats, heap, analysis_results, grammar_tool, sentiment_analyzer,
                 text_generator, built, started>>

cg_load_errors(t) ==
  /\ th[t].pc = "cg_load_errors"
  /\ Moves(t, Loads(th[t], "grammar_errors_found", th[t].out.total_issues,
                    "cg_store_errors"))
  /\ UNCHANGED <<stats, heap, analysis_results, grammar_tool, sentiment_analyzer,
                 text_generator, built, started>>

cg_store_errors(t) ==
  /\ th[t].pc = "cg_store_errors"
  /\ Stores(t, [th[t] EXCEPT !.pc = "respond"])
  /\ UNCHANGED <<stats, analysis_results, grammar_tool, sentiment_analyzer,
                 text_generator, built, started>>

(***************************************************************************)
(* POST /analyze                                                           *)
(***************************************************************************)
\* Whether a call of the segmenter returns (TRUE) or raises (FALSE); there
\* is no call, and so nothing to raise, when the text is blank.
SegmenterReturns(f) == IF f.segmented THEN BOOLEAN ELSE {TRUE}

\* The segmenter was called once more, if it is called for this text.
Segmented(me, f) ==
  [me EXCEPT !.segmenter_calls = @ + (IF f.segmented THEN 1 ELSE 0)]

\* Lines 163-167, to the lookup of stats["words_checked"].
analyze_text(t) ==
  /\ th[t].pc = "analyze"
  /\ IF MissingText(t) THEN Moves(t, Fails(t, 400))
     ELSE IF NotAString(t) THEN Moves(t, Fails(t, 500))
     ELSE \E returns \in SegmenterReturns(Facts(t)) :
            LET f  == Facts(t)
                me == Segmented(th[t], f)
            IN  Moves(t, IF ~returns
                         THEN [me EXCEPT !.pc = "done", !.resp = ErrorResp(500)]
                         ELSE Loads([me EXCEPT !.out =
                                       [kind |-> "analysis",
                                        char_count |-> f.char_count,
                                        word_count |-> f.word_count,
                                        sentence_count |-> f.sentence_count]],
                                    "words_checked", f.word_count, "an_store_words"))
  /\ UNCHANGED <<stats, heap, analysis_results, grammar_tool, sentiment_analyzer,
                 text_generator, built, started>>

\* Lines 167-178: the store, the averages and the valid paragraphs.
an_store_words(t) ==
  /\ th[t].pc = "an_store_words"
  /\ \E returns \in SegmenterReturns(Facts(t)) :
        LET f     == Facts(t)
            me    == Segmented(th[t], f)
            paras == f.valid_paragraphs
        IN  Stores(t, IF ~returns
                      THEN [me EXCEPT !.pc = "done", !.resp = ErrorResp(500)]
                      ELSE [me EXCEPT
                              !.pc = IF Len(paras) = 0 THEN "an_cache" ELSE "an_sentiment",
                              !.paras = paras,
                              !.out = [kind |-> "analysis",
                                       char_count |-> th[t].out.char_count,
                                       word_count |-> th[t].out.word_count,
                                       sentence_count |-> th[t].out.sentence_count,
                                       avg_word_length |-> f.avg_word_length,
                                       avg_sentence_length |-> f.avg_sentence_length]])
  /\ UNCHANGED <<stats, analysis_results, grammar_tool, sentiment_analyzer,
                 text_generator, built, started>>

\* The loop over valid_paragraphs goes on with the next one, or is over.
NextParagraph(me) ==
  [me EXCEPT !.pc = IF Len(me.results) = Len(me.paras) THEN "an_cache"
                    ELSE "an_sentiment"]

\* The paragraph the loop is at.
Para(t) == th[t].paras[Len(th[t].results) + 1]

\* except Exception: the placeholder entry is appended.
Degraded(t) ==
  NextParagraph([th[t] EXCEPT !.results = Append(@, NeutralEntry(Para(t))),
                              !.outcomes = Append(@, Raised)])

\* get_sentiment_analyzer(): if sentiment_analyzer is None
get_sentiment_analyzer(t) ==
  /\ th[t].pc = "an_sentiment"
  /\ Moves(t, [th[t] EXCEPT !.sentiment_uses = @ + 1,
                            !.pc = IF sentiment_analyzer = 0 THEN "an_sentiment_init"
                                   ELSE "an_sentiment_call"])
  /\ UNCHANGED <<stats, heap, analysis_results, grammar_tool, sentiment_analyzer,
                 text_generator, built, started>>

\* pipeline("sentiment-analysis", ...) returns and is kept, or raises into
\* the paragraph's except clause.
sentiment_analyzer_init(t) ==
  /\ th[t].pc = "an_sentiment_init"
  /\ \E returns \in BOOLEAN :
        IF returns
        THEN /\ built' = [built EXCEPT !.sentiment = @ + 1]
             /\ sentiment_analyzer' = built.sentiment + 1
             /\ Moves(t, [th[t] EXCEPT !.pc = "an_sentiment_call"])
        ELSE /\ Moves(t, Degraded(t))
             /\ UNCHANGED <<sentiment_analyzer, built>>
  /\ UNCHANGED <<stats, heap, analysis_results, grammar_tool,
                 text_generator, started>>

\* return sentiment_analyzer, then the call on para[:512]: an answer, or an
\* exception into the paragraph's except clause.
sentiment_call(t) ==
  /\ th[t].pc = "an_sentiment_call"
  /\ \E answer \in SentimentOutcomes \cup {Raised} :
        Moves(t, IF answer = Raised
                 THEN [Degraded(t) EXCEPT !.inst = sentiment_analyzer]
                 ELSE NextParagraph(
                        [th[t] EXCEPT
                           !.inst = sentiment_analyzer,
                           !.results = Append(@, SentimentEntry(Para(t), answer.label,
                                                               answer.score)),
                           !.outcomes = Append(@, answer)]))
  /\ UNCHANGED <<stats, heap, analysis_results, grammar_tool, sentiment_analyzer,
                 text_generator, built, started>>

\* Lines 199-233: the readability issues, the overall sentiment, and
\* analysis_results[text[:100]] = analysis.
an_cache(t) ==
  /\ th[t].pc = "an_cache"
  /\ analysis_results' = analysis_results \cup {Facts(t).cache_key}
  /\ LET o == th[t].out
     IN  Moves(t, [th[t] EXCEPT
                     !.pc = "respond",
                     !.out = [kind |-> "analysis",
                              char_count |-> o.char_count,
                              word_count |-> o.word_count,
                              sentence_count |-> o.sentence_count,
                              avg_word_length |-> o.avg_word_length,
                              avg_sentence_length |-> o.avg_sentence_length,
                              overall_sentiment |-> OverallSentiment(th[t].results),
                              positive_paragraphs |-> CountLabel(th[t].results, "POSITIVE"),
                              negative_paragraphs |-> CountLabel(th[t].results, "NEGATIVE"),
                              sentiment_results |-> th[t].results,
                              readability_issues |->
                                ReadabilityIssues(o.avg_sentence_length,
                                                  o.sentence_count)]])
  /\ UNCHANGED <<stats, heap, grammar_tool, sentiment_analyzer,
                 text_generator, built, started>>

(***************************************************************************)
(* POST /suggest                                                           *)
(***************************************************************************)
suggest_improvements(t) ==
  /\ th[t].pc = "suggest"
  /\ Moves(t, IF MissingText(t) THEN Fails(t, 400)
              ELSE IF NotAString(t) THEN Fails(t, 500)
              ELSE Loads(th[t], "words_checked", Facts(t).word_count, "sg_store_words"))
  /\ UNCHANGED <<stats, heap, analysis_results, grammar_tool, sentiment_analyzer,
                 text_generator, built, started>>

\* Lines 255-307: the store, the segmenter, the scans and the count.
sg_store_words(t) ==
  /\ th[t].pc = "sg_store_words"
  /\ \E returns \in BOOLEAN :
        LET f  == Facts(t)
            me == [th[t] EXCEPT !.segmenter_calls = @ + 1]
        IN  Stores(t, IF ~returns
                      THEN [me EXCEPT !.pc = "done", !.resp = ErrorResp(500)]
                      ELSE [me EXCEPT !.pc = "sg_load_suggestions",
                                      !.out = [kind |-> "suggestions",
                                               suggestions |-> f.suggestions,
                                               suggestion_count |-> f.suggestion_count]])
  /\ UNCHANGED <<stats, analysis_results, grammar_tool, sentiment_analyzer,
                 text_generator, built, started>>

sg_load_suggestions(t) ==
  /\ th[t].pc = "sg_load_suggestions"
  /\ Moves(t, Loads(th[t], "suggestions_made", th[t].out.suggestion_count,
                    "sg_store_suggestions"))
  /\ UNCHANGED <<stats, heap, analysis_results, grammar_tool, sentiment_analyzer,
                 text_generator, built, started>>

sg_store_suggestions(t) ==
  /\ th[t].pc = "sg_store_suggestions"
  /\ Stores(t, [th[t] EXCEPT !.pc = "respond"])
  /\ UNCHANGED <<stats, analysis_results, grammar_tool, sentiment_analyzer,
                 text_generator, built, started>>

(***************************************************************************)
(* POST /complete                                                          *)
(***************************************************************************)
\* /complete counting into words_checked: a faulty variant that C10 tells
\* from the code's.
CompleteCounterWords == "words_checked"

\* The counter and the amount of stats["suggestions_made"] += 1.
CompleteCounter == "suggestions_made"

CompleteAmount == 1

\* Lines 337-339, to get_text_generator(): if text_generator is None
complete_text(t) ==
  /\ th[t].pc = "complete"
  /\ Moves(t, IF MissingText(t) THEN Fails(t, 400)
              ELSE IF NotAString(t) THEN Fails(t, 500)
              ELSE [th[t] EXCEPT
                      !.pc = IF text_generator = 0 THEN "cp_generator_init"
                             ELSE "cp_generate",
                      !.out = [kind |-> "completion",
                               prompt |-> Facts(t).prompt]])
  /\ UNCHANGED <<stats, heap, analysis_results, grammar_tool, sentiment_analyzer,
                 text_generator, built, started>>

\* pipeline("text-generation", ...) returns and is kept, or raises.
text_generator_init(t) ==
  /\ th[t].pc = "cp_generator_init"
  /\ \E returns \in BOOLEAN :
        IF returns
        THEN /\ built' = [built EXCEPT !.generator = @ + 1]
             /\ text_generator' = built.generator + 1
             /\ Moves(t, [th[t] EXCEPT !.pc = "cp_generate"])
        ELSE /\ Moves(t, Fails(t, 500))
             /\ UNCHANGED <<text_generator, built>>
  /\ UNCHANGED <<stats, heap, analysis_results, grammar_tool,
                 sentiment_analyzer, started>>

\* return text_generator, then the generation: it raises, or the prompt
\* comes back with a continuation.
generate(t) ==
  /\ th[t].pc = "cp_generate"
  /\ \E returns \in BOOLEAN, more \in Continuations :
        LET prompt    == th[t].out.prompt
            full_text == prompt \o more
        IN  Moves(t, IF ~returns
                     THEN [Fails(t, 500) EXCEPT !.inst = text_generator]
                     ELSE [th[t] EXCEPT
                             !.pc = "cp_load_suggestions",
                             !.inst = text_generator,
                             !.out = [kind |-> "completion",
                                      prompt |-> prompt,
                                      generated_text |->
                                        SubSeq(full_text, Len(prompt) + 1, Len(full_text)),
                                      full_text |-> full_text]])
  /\ UNCHANGED <<stats, heap, analysis_results, grammar_tool, sentiment_analyzer,
                 text_generator, built, started>>

cp_load_suggestions(t) ==
  /\ th[t].pc = "cp_load_suggestions"
  /\ Moves(t, Loads(th[t], CompleteCounter, CompleteAmount, "cp_store_suggestions"))
  /\ UNCHANGED <<stats, heap, analysis_results, grammar_tool, sentiment_analyzer,
                 text_generator, built, started>>

cp_store_suggestions(t) ==
  /\ th[t].pc = "cp_store_suggestions"
  /\ Stores(t, [th[t] EXCEPT !.pc = "respond"])
  /\ UNCHANGED <<stats, analysis_results, grammar_tool, sentiment_analyzer,
                 text_generator, built, started>>

(***************************************************************************)
(* The server.  Spec: the threaded server, requests overlapping in every   *)
(* way.  SerialSpec: one request after the other, over every text.         *)
(***************************************************************************)
Step(t, ids) ==
  \/ Arrive(t, ids)
  \/ Deliver(t)
  \/ Respond(t)
  \/ Serialise(t)
  \/ health_check(t)
  \/ get_stats(t)
  \/ reset_stats(t)
  \/ reset_cache(t)
  \/ check_grammar(t)
  \/ cg_store_words(t)
  \/ get_grammar_tool(t)
  \/ grammar_tool_init(t)
  \/ grammar_check(t)
  \/ cg_load_errors(t)
  \/ cg_store_errors(t)
  \/ analyze_text(t)
  \/ an_store_words(t)
  \/ get_sentiment_analyzer(t)
  \/ sentiment_analyzer_init(t)
  \/ sentiment_call(t)
  \/ an_cache(t)
  \/ suggest_improvements(t)
  \/ sg_store_words(t)
  \/ sg_load_suggestions(t)
  \/ sg_store_suggestions(t)
  \/ complete_text(t)
  \/ text_generator_init(t)
  \/ generate(t)
  \/ cp_load_suggestions(t)
  \/ cp_store_suggestions(t)

Next == \E t \in Threads : Step(t, RaceTexts)

Spec == Init /\ [][Next]_vars

NextSerial == Step(1, AllTexts)

SerialSpec == Init /\ [][NextSerial]_vars

(***************************************************************************)
(* Observations the properties are stated on.                              *)
(***************************************************************************)
\* The counters a GET /stats would read now.
Counters == heap[stats]

CounterNames == {"words_checked", "grammar_errors_found", "suggestions_made"}

\* Thread t holds the response of a request to endpoint e.
Answered(t, e) == th[t].pc = "done" /\ th[t].endpoint = e

Succeeded(t, e) == Answered(t, e) /\ th[t].resp.status = 200

\* The step is taken by thread t.
StepOf(t) == th'[t].pc # th[t].pc

\* The step is thread t's STORE_SUBSCR of a stats[key] += amount.
StoreStepOf(t) ==
  /\ th[t].pc \in {"cg_store_words", "cg_store_errors", "an_store_words",
                   "sg_store_words", "sg_store_suggestions", "cp_store_suggestions"}
  /\ StepOf(t)

\* Some request to /reset is being served.
ResetInFlight == \E t \in Threads : th[t].endpoint = "reset"

\* The texts that are empty or hold white space only.
BlankTexts == {x \in AllTexts : \A i \in 1..Len(Texts[x]) : Ch(Texts[x], i) \in SpaceChars}

(***************************************************************************)
(* C1: the stats object in the response of POST /reset has all three       *)
(* counters at 0, whatever the counters held and whatever other requests   *)
(* are in flight.                                                          *)
(***************************************************************************)
C1_ResetReturnsZeros ==
  \A t \in Threads :
     Answered(t, "reset") =>
        /\ th[t].resp.stats.words_checked = 0
        /\ th[t].resp.stats.grammar_errors_found = 0
        /\ th[t].resp.stats.suggestions_made = 0

(***************************************************************************)
(* C2: between two resets no counter ever decreases: with no /reset being  *)
(* served, every step leaves each counter at least as large as it was.     *)
(***************************************************************************)
C2_CountersNeverDecrease ==
  [][(~ResetInFlight /\ ~ResetInFlight')
       => \A k \in CounterNames : Counters'[k] >= Counters[k]]_vars

(***************************************************************************)
(* C3: a request that ends in failure (400 or 500) leaves all three        *)
(* counters exactly as they were before it started (no other request       *)
(* having run meanwhile).                                                  *)
(***************************************************************************)
C3_FailedRequestLeavesCounters ==
  \A t \in Threads :
     (th[t].pc = "done" /\ th[t].resp.status \in {400, 500} /\ th[t].alone)
        => Counters = th[t].pre

(***************************************************************************)
(* C4: a successful /suggest returns as suggestion_count the sum of the    *)
(* lengths of its four lists and, no other request having run meanwhile,   *)
(* leaves suggestions_made at its value before the request plus that       *)
(* count.                                                                  *)
(***************************************************************************)
C4_SuggestionCountIsSumAndAdded ==
  \A t \in Threads :
     Succeeded(t, "suggest") =>
        LET sg    == th[t].resp.payload.suggestions
            count == th[t].resp.payload.suggestion_count
        IN  /\ count = Len(sg.long_sentences) + Len(sg.passive_voice)
                        + Len(sg.repeated_words) + Len(sg.general_suggestions)
            /\ th[t].alone =>
                  Counters.suggestions_made = th[t].pre.suggestions_made + count

\* A /suggest that found suggestions of all four kinds has been answered
\* after an earlier request had made suggestions.
C4_Witness ==
  \E t \in Threads :
     /\ Succeeded(t, "suggest")
     /\ th[t].alone
     /\ th[t].pre.suggestions_made > 0
     /\ Len(th[t].resp.payload.suggestions.long_sentences) > 0
     /\ Len(th[t].resp.payload.suggestions.passive_voice) > 0
     /\ Len(th[t].resp.payload.suggestions.general_suggestions) > 0

(***************************************************************************)
(* C5: each engine is constructed at most once per process, and every      *)
(* get_grammar_tool / get_sentiment_analyzer / get_text_generator call     *)
(* returns that one instance.                                              *)
(***************************************************************************)
C5_EnginesBuiltOnce ==
  /\ \A e \in DOMAIN built : built[e] <= 1
  /\ \A t \in Threads : th[t].inst \in {0, 1}

(***************************************************************************)
(* C6: in /analyze the sentiment call failing for any of the paragraphs    *)
(* never fails the request: the response is a success with one entry per   *)
(* valid paragraph, in order, NEUTRAL with score 0.5 where the call failed *)
(* and the engine's label and score elsewhere.                             *)
(***************************************************************************)
C6_SentimentFailuresDegrade ==
  \A t \in Threads :
     (Answered(t, "analyze") /\ th[t].sentiment_uses > 0) =>
        /\ th[t].resp.status = 200
        /\ LET r     == th[t].resp.payload.sentiment_results
               valid == SelectSeq(SplitParagraphs(Texts[th[t].body.text]),
                                  LAMBDA p : Len(Strip(p)) > 3)
               said  == th[t].outcomes
           IN  /\ Len(r) = Len(valid)
               /\ Len(said) = Len(valid)
               /\ \A k \in 1..Len(valid) :
                     /\ r[k].full_paragraph = valid[k]
                     /\ said[k] = Raised => r[k].label = "NEUTRAL" /\ r[k].score = 50
                     /\ said[k] # Raised => /\ r[k].label = said[k].label
                                            /\ r[k].score = said[k].score

\* An /analyze of two valid paragraphs has been answered, the sentiment
\* call having failed for the first and not for the second.
C6_Witness ==
  \E t \in Threads :
     /\ Succeeded(t, "analyze")
     /\ Len(th[t].outcomes) = 2
     /\ th[t].outcomes[1] = Raised
     /\ th[t].outcomes[2] # Raised

(***************************************************************************)
(* C7: general_suggestions of /suggest holds the shorten advice exactly    *)
(* when more than 2 long sentences were found, the active-voice advice     *)
(* exactly when more than 2 passive-voice entries were recorded, the       *)
(* expand advice exactly when the text has fewer than 100 words and the    *)
(* organise advice exactly when it has more than 1000; expand and organise *)
(* never both, so at most 3 entries.                                       *)
(***************************************************************************)
C7_GeneralSuggestionRules ==
  \A t \in Threads :
     Succeeded(t, "suggest") =>
        LET sg     == th[t].resp.payload.suggestions
            g      == sg.general_suggestions
            has(a) == \E k \in 1..Len(g) : g[k] = a
            words  == WordCount(Texts[th[t].body.text])
        IN  /\ has(AdviceShorten) <=> Len(sg.long_sentences) > 2
            /\ has(AdviceActive) <=> Len(sg.passive_voice) > 2
            /\ has(AdviceExpand) <=> words < 100
            /\ has(AdviceOrganise) <=> words > 1000
            /\ ~(has(AdviceExpand) /\ has(AdviceOrganise))
            /\ Len(g) <= 3

\* A /suggest has been answered with the organise advice and the shorten
\* advice together.
C7_Witness ==
  \E t \in Threads :
     /\ Succeeded(t, "suggest")
     /\ th[t].resp.payload.suggestions.general_suggestions
          = <<AdviceShorten, AdviceOrganise>>

(***************************************************************************)
(* C8: an /analyze of an empty or white-space-only text succeeds with      *)
(* sentence_count, avg_word_length and avg_sentence_length all 0, never    *)
(* calls the segmenter, has no valid paragraph and so never looks up or    *)
(* calls the sentiment engine, and reports no readability issue.           *)
(***************************************************************************)
C8_BlankAnalyze ==
  \A t \in Threads :
     (th[t].endpoint = "analyze" /\ th[t].body.kind = "text"
        /\ th[t].body.text \in BlankTexts) =>
        /\ th[t].segmenter_calls = 0
        /\ th[t].sentiment_uses = 0
        /\ th[t].inst = 0
        /\ th[t].paras = <<>>
        /\ th[t].pc = "done" =>
              /\ th[t].resp.status = 200
              /\ th[t].resp.payload.sentence_count = 0
              /\ th[t].resp.payload.avg_word_length.num = 0
              /\ th[t].resp.payload.avg_sentence_length.num = 0
              /\ th[t].resp.payload.sentiment_results = <<>>
              /\ th[t].resp.payload.readability_issues = <<>>

\* An /analyze of a text of white space only has been answered.
C8_Witness ==
  \E t \in Threads :
     /\ Succeeded(t, "analyze")
     /\ th[t].body.text \in BlankTexts
     /\ Len(Texts[th[t].body.text]) > 0

(***************************************************************************)
(* C9: a counter update is an unsynchronised read-modify-write: the store  *)
(* puts the value the thread read earlier plus its amount, whatever has    *)
(* been stored since, so that an update of another request is lost (the    *)
(* witness).                                                               *)
(***************************************************************************)
C9_StoreWritesWhatWasRead ==
  [][\A t \in Threads :
        (StoreStepOf(t) /\ th[t].ref = stats)
           => Counters'[th[t].key] = th[t].val + th[t].amt]_vars

\* Two requests that each added words to words_checked, with no reset,
\* have both been answered and the counter is short of the two amounts.
C9_Witness ==
  \E t, u \in Threads :
     /\ t # u
     /\ started = 2
     /\ \A v \in {t, u} : /\ th[v].pc = "done"
                          /\ th[v].resp.status = 200
                          /\ th[v].endpoint \in {"check_grammar", "analyze", "suggest"}
                          /\ Facts(v).word_count > 0
     /\ Counters.words_checked < Facts(t).word_count + Facts(u).word_count

(***************************************************************************)
(* C10: each counter is written only by its own handlers:                  *)
(* grammar_errors_found only in /check-grammar and /reset,                 *)
(* suggestions_made only in /suggest, /complete and /reset, words_checked  *)
(* only in /check-grammar, /analyze, /suggest and /reset; /health and      *)
(* /stats change none; a successful /complete adds exactly 1 to            *)
(* suggestions_made and leaves the other two as they were.                 *)
(***************************************************************************)
WritersOf(k) ==
  CASE k = "grammar_errors_found" -> {"check_grammar", "reset"}
    [] k = "suggestions_made"     -> {"suggest", "complete", "reset"}
    [] k = "words_checked"        -> {"check_grammar", "analyze", "suggest", "reset"}

C10_CountersWrittenByTheirHandlers ==
  [][/\ \A k \in CounterNames :
          Counters'[k] # Counters[k]
             => \E t \in Threads : StepOf(t) /\ th[t].endpoint \in WritersOf(k)
     /\ \A t \in Threads :
          (StoreStepOf(t) /\ th[t].endpoint = "complete" /\ th[t].ref = stats)
             => Counters' = [Counters EXCEPT !.suggestions_made = th[t].val + 1]
     /\ \A t \in Threads :
          (Succeeded(t, "complete") /\ th[t].alone)
             => Counters = [th[t].pre EXCEPT !.suggestions_made = @ + 1]]_vars

\* A /complete has been answered after an earlier request had made
\* suggestions, no other request having run meanwhile.
C10_Witness ==
  \E t \in Threads :
     /\ Succeeded(t, "complete")
     /\ th[t].alone
     /\ th[t].pre.suggestions_made > 0
     /\ Counters.suggestions_made = th[t].pre.suggestions_made + 1

====
